---------------------------- MODULE Spec2Model ----------------------------
(***************************************************************************)
(* Synthetic drilling data: the bounded random walk of app.py and          *)
(* generate_data.py, and the unique-name CSV export of generate_data.py.   *)
(*                                                                         *)
(* Channel values are reals in the source; here they are counted in        *)
(* 1/SCALE units, so 0.1 is 1 and 20 is 200.  A call of                    *)
(* np.random.uniform(low, high) is low + (high - low) * u for a unit draw  *)
(* u, taken here from the grid {0, 1/2, 1}.                                *)
(***************************************************************************)
EXTENDS Integers, Sequences, FiniteSets, TLC

VARIABLES
    \* ---- app.py generate_drilling_data: arguments and locals
    start_depth, end_depth, step, max_step,
    depths, rop, rpm, fr, wob, i, data, pc, ndraws,
    \* ---- the shapes of the tables built so far, oldest first
    shapes,
    \* ---- generate_data.py generate_drilling_data: one entry per process
    df, file_index, file_name, gpc, runs, calls,
    \* ---- the file system the exports share
    dirs, files, files0, written

appVars == <<start_depth, end_depth, step, max_step,
             depths, rop, rpm, fr, wob, i, data, pc, ndraws>>
gdVars  == <<df, file_index, file_name, gpc, runs, calls>>
fsVars  == <<dirs, files, files0, written>>
vars    == <<appVars, gdVars, fsVars, shapes>>

---------------------------------------------------------------------------
\* Bounds of the model

\* largest end_depth argument tried
MaxDepth == 3
\* largest index of a file already in the directory when the exports start
MaxExisting == 3
\* number of sequential calls one process makes
MaxCalls == 2

---------------------------------------------------------------------------
\* Numbers of the source

SCALE == 10

ROP_MIN == 2
ROP_MAX == 20
RPM_MIN == 60
RPM_MAX == 120
FR_MIN == 200
FR_MAX == 400
WOB_MIN == 5
WOB_MAX == 20

\* the bounds of the four channels, in 1/SCALE units, in column order
LOW  == <<ROP_MIN * SCALE, RPM_MIN * SCALE, FR_MIN * SCALE, WOB_MIN * SCALE>>
HIGH == <<ROP_MAX * SCALE, RPM_MAX * SCALE, FR_MAX * SCALE, WOB_MAX * SCALE>>

\* generate_data.py: np.arange(500, 1005, 5)
GD_START == 500
GD_STOP == 1005
GD_STEP == 5
\* generate_data.py: the literal steps 0.5, 5, 10, 1
GD_MAX_STEP == <<SCALE \div 2, 5 * SCALE, 10 * SCALE, 1 * SCALE>>

COLUMNS == <<"Depth (m)", "ROP (m/h)", "RPM", "Flow Rate (L/min)",
             "Weight on Bit (tons)">>

---------------------------------------------------------------------------
\* numpy

\* unit draws of the random source, as numerators over RandDenom
RandUnits == {0, 1, 2}
RandDenom == Cardinality(RandUnits) - 1

\* np.random.uniform(low, high) for the unit draw u
Uniform(low, high, u) == low + ((high - low) * u) \div RandDenom

Min2(a, b) == IF a < b THEN a ELSE b
Max2(a, b) == IF a > b THEN a ELSE b

\* np.clip(x, a_min, a_max) == minimum(maximum(x, a_min), a_max)
ClipNoUpper(x, a_min, a_max) == Max2(x, a_min)
Clip(x, a_min, a_max) == Min2(Max2(x, a_min), a_max)

CeilDiv(a, b) == (a + b - 1) \div b

\* len(np.arange(start, stop, stp)) for integers, stp # 0
ArangeLen(start, stop, stp) ==
    IF stp > 0 THEN (IF stop > start THEN CeilDiv(stop - start, stp) ELSE 0)
               ELSE (IF stop < start THEN CeilDiv(start - stop, -stp) ELSE 0)

\* np.arange(start, stop, stp): element k (from 1) is start + (k-1)*stp
Arange(start, stop, stp) ==
    [k \in 1..ArangeLen(start, stop, stp) |-> start + (k - 1) * stp]

\* np.zeros(n)
Zeros(n) == [k \in 1..n |-> 0]

\* one step of the walk: np.clip(prev + np.random.uniform(-m, m), lo, hi)
WalkStepDouble(prev, m, lo, hi, u) == Clip(prev + 2 * Uniform(-m, m, u), lo, hi)
WalkStep(prev, m, lo, hi, u) == Clip(prev + Uniform(-m, m, u), lo, hi)

\* pd.DataFrame(dict) raises ValueError unless the arrays are equally long
SameLength(d, r, p, f, w) ==
    Len(r) = Len(d) /\ Len(p) = Len(d) /\ Len(f) = Len(d) /\ Len(w) = Len(d)

\* pd.DataFrame(dict): the columns, as (name, values), in insertion order
DataFrameSwapped(d, r, p, f, w) ==
    << <<COLUMNS[1], d>>, <<COLUMNS[3], p>>, <<COLUMNS[2], r>>,
       <<COLUMNS[4], f>>, <<COLUMNS[5], w>> >>
DataFrame(d, r, p, f, w) ==
    << <<COLUMNS[1], d>>, <<COLUMNS[2], r>>, <<COLUMNS[3], p>>,
       <<COLUMNS[4], f>>, <<COLUMNS[5], w>> >>

\* no table yet
NoFrame == <<>>

\* df.shape with df.columns: the name and the length of every column
Shape(t) == [c \in 1..Len(t) |-> <<t[c][1], Len(t[c][2])>>]

---------------------------------------------------------------------------
\* app.py generate_drilling_data(start_depth, end_depth, step, max_step_*)

StartDepths == {0, 2}
EndDepths == 0..MaxDepth
Steps == {-2, 0, 2, 4}
\* (max_step_rop, max_step_rpm, max_step_fr, max_step_wob): the sliders'
\* defaults 0.5, 5, 10, 1.0 and their maxima 5.0, 20, 50, 5.0
MaxSteps == { <<SCALE \div 2, 5 * SCALE, 10 * SCALE, 1 * SCALE>>,
              <<5 * SCALE, 20 * SCALE, 50 * SCALE, 5 * SCALE>> }

AppIdle ==
    /\ start_depth = 0 /\ end_depth = 0 /\ step = 1
    /\ max_step = <<1, 1, 1, 1>>
    /\ depths = <<>> /\ rop = <<>> /\ rpm = <<>> /\ fr = <<>> /\ wob = <<>>
    /\ i = 0 /\ data = NoFrame /\ pc = "idle" /\ ndraws = 0

AppCalled ==
    /\ start_depth \in StartDepths
    /\ end_depth \in EndDepths
    /\ step \in Steps
    /\ max_step \in MaxSteps
    /\ depths = <<>> /\ rop = <<>> /\ rpm = <<>> /\ fr = <<>> /\ wob = <<>>
    /\ i = 0 /\ data = NoFrame /\ pc = "arange" /\ ndraws = 0

\* lines 22-29: the depth axis and the zeroed arrays; np.arange raises
\* for a zero step
AppArange ==
    /\ pc = "arange"
    /\ IF step = 0
       THEN /\ pc' = "error"
            /\ UNCHANGED <<depths, rop, rpm, fr, wob>>
       ELSE /\ depths' = Arange(start_depth, end_depth + step, step)
            /\ rop' = Zeros(Len(depths'))
            /\ rpm' = Zeros(Len(depths'))
            /\ fr' = Zeros(Len(depths'))
            /\ wob' = Zeros(Len(depths'))
            /\ pc' = "first"
    /\ UNCHANGED <<start_depth, end_depth, step, max_step, i, data, ndraws, shapes>>

\* lines 31-34: the right-hand side is evaluated, then stored at index 0;
\* on an empty array the store raises IndexError after the first draw
AppFirst ==
    /\ pc = "first"
    /\ IF Len(depths) = 0
       THEN /\ ndraws' = ndraws + 1
            /\ pc' = "error"
            /\ UNCHANGED <<rop, rpm, fr, wob, i>>
       ELSE /\ \E u1 \in RandUnits, u2 \in RandUnits, u3 \in RandUnits, u4 \in RandUnits :
                /\ rop' = [rop EXCEPT ![1] = Uniform(LOW[1], HIGH[1], u1)]
                /\ rpm' = [rpm EXCEPT ![1] = Uniform(LOW[2], HIGH[2], u2)]
                /\ fr' = [fr EXCEPT ![1] = Uniform(LOW[3], HIGH[3], u3)]
                /\ wob' = [wob EXCEPT ![1] = Uniform(LOW[4], HIGH[4], u4)]
            /\ ndraws' = ndraws + 4
            /\ i' = 1
            /\ pc' = "loop"
    /\ UNCHANGED <<start_depth, end_depth, step, max_step, depths, data, shapes>>

\* lines 37-41: one iteration of for i in range(1, num_points); the source's
\* index i is position i + 1 here
AppStep ==
    /\ pc = "loop"
    /\ i < Len(depths)
    /\ \E u1 \in RandUnits, u2 \in RandUnits, u3 \in RandUnits, u4 \in RandUnits :
        /\ rop' = [rop EXCEPT ![i + 1] = WalkStep(rop[i], max_step[1], LOW[1], HIGH[1], u1)]
        /\ rpm' = [rpm EXCEPT ![i + 1] = WalkStep(rpm[i], max_step[2], LOW[2], HIGH[2], u2)]
        /\ fr' = [fr EXCEPT ![i + 1] = WalkStep(fr[i], max_step[3], LOW[3], HIGH[3], u3)]
        /\ wob' = [wob EXCEPT ![i + 1] = WalkStep(wob[i], max_step[4], LOW[4], HIGH[4], u4)]
    /\ ndraws' = ndraws + 4
    /\ i' = i + 1
    /\ UNCHANGED <<start_depth, end_depth, step, max_step, depths, data, pc, shapes>>

\* lines 43-50: the loop is exhausted; the table is built and returned
AppReturn ==
    /\ pc = "loop"
    /\ i >= Len(depths)
    /\ IF SameLength(depths, rop, rpm, fr, wob)
       THEN /\ data' = DataFrame(depths, rop, rpm, fr, wob)
            /\ shapes' = Append(shapes, Shape(data'))
            /\ pc' = "returned"
       ELSE /\ pc' = "error"
            /\ UNCHANGED <<data, shapes>>
    /\ UNCHANGED <<start_depth, end_depth, step, max_step,
                   depths, rop, rpm, fr, wob, i, ndraws>>

\* lines 108-113: the button is pressed again with the same configuration;
\* a second table is generated from fresh draws
AppCallAgain ==
    /\ pc = "returned"
    /\ Len(shapes) < 2
    /\ depths' = <<>> /\ rop' = <<>> /\ rpm' = <<>> /\ fr' = <<>> /\ wob' = <<>>
    /\ i' = 0 /\ data' = NoFrame /\ ndraws' = 0
    /\ pc' = "arange"
    /\ UNCHANGED <<start_depth, end_depth, step, max_step, shapes>>

---------------------------------------------------------------------------
\* generate_data.py generate_drilling_data(directory, file_prefix)

Procs == {1, 2}

\* the default arguments
directory == "data"
file_prefix == "test_data"

\* The draws one call consumes: the unit draw of the four first values, and
\* the cyclic pattern of the draws of the walk.
Streams == { [first |-> 0, walk |-> <<RandDenom>>],
             [first |-> RandDenom, walk |-> <<0>>],
             [first |-> 1, walk |-> <<RandDenom>>],
             [first |-> 1, walk |-> <<0, RandDenom, 1>>] }

\* the n-th draw (from 0) of the loop under stream s
Draw(s, n) == s.walk[(n % Len(s.walk)) + 1]

\* lines 29-33 for channel c: the walk continued up to n values; iteration k
\* (from 1) draws for the channels in the order rop, rpm, fr, wob
RECURSIVE GdWalk(_, _, _, _)
GdWalk(acc, c, n, s) ==
    IF Len(acc) >= n THEN acc
    ELSE GdWalk(Append(acc, WalkStep(acc[Len(acc)], GD_MAX_STEP[c], LOW[c], HIGH[c],
                                     Draw(s, 4 * (Len(acc) - 1) + (c - 1)))),
                c, n, s)

\* lines 18-33 for channel c: the first value, then the walk
GdSeries(c, n, s) == GdWalk(<<Uniform(LOW[c], HIGH[c], s.first)>>, c, n, s)

\* lines 14-43: the table of one call under stream s
GdFrame(s) ==
    LET d == Arange(GD_START, GD_STOP, GD_STEP)
    IN  DataFrame(d, GdSeries(1, Len(d), s), GdSeries(2, Len(d), s),
                  GdSeries(3, Len(d), s), GdSeries(4, Len(d), s))

\* f"{directory}/{file_prefix}_{file_index}.csv"
FileName(k) == directory \o "/" \o file_prefix \o "_" \o ToString(k) \o ".csv"

\* os.path.exists(path)
ExistsAtStart(path) == path \in DOMAIN files0
ExistsNowhere(path) == (directory \o "/" \o path) \in DOMAIN files
Exists(path) == path \in DOMAIN files

\* df.to_csv(path, index=False): the header line, then one line per row
ToCsv(t) ==
    << [c \in 1..Len(t) |-> t[c][1]],
       [k \in 1..Len(t[1][2]) |-> [c \in 1..Len(t) |-> t[c][2][k]]] >>

\* a file already in the directory: some earlier one-row table
OldCsv(k) == << COLUMNS, << <<k, k, k, k, k>> >> >>

\* another file of the directory, which no candidate name matches
OtherFile == directory \o "/" \o file_prefix \o ".csv"

\* no process has been started
GdIdle ==
    /\ df = [p \in Procs |-> NoFrame]
    /\ file_index = [p \in Procs |-> 0]
    /\ file_name = [p \in Procs |-> ""]
    /\ gpc = [p \in Procs |-> "idle"]
    /\ calls = [p \in Procs |-> 0]

\* the directory when the exports start: any set of numbered files, with
\* or without the other file; with no file the directory may be missing
FsInit ==
    /\ \E S \in SUBSET (1..MaxExisting), O \in SUBSET {OtherFile} :
         files0 = [n \in {FileName(k) : k \in S} \cup O |->
                     IF n \in O THEN OldCsv(0)
                     ELSE OldCsv(CHOOSE k \in S : FileName(k) = n)]
    /\ files = files0
    /\ dirs \in (IF DOMAIN files0 = {} THEN {{}, {directory}} ELSE {{directory}})
    /\ written = <<>>

FsIdle ==
    /\ files0 = << >> /\ files = << >> /\ dirs = {} /\ written = <<>>

\* lines 58-59: the script is run (again); runs[p] is how often p runs it
GdCall(p) ==
    /\ gpc[p] \in {"idle", "done"}
    /\ calls[p] < runs[p]
    /\ calls' = [calls EXCEPT ![p] = @ + 1]
    /\ gpc' = [gpc EXCEPT ![p] = "generate"]
    /\ UNCHANGED <<df, file_index, file_name, runs, fsVars, shapes>>

\* lines 14-43: the table is generated
GdGenerate(p) ==
    /\ gpc[p] = "generate"
    /\ \E s \in Streams : df' = [df EXCEPT ![p] = GdFrame(s)]
    /\ shapes' = Append(shapes, Shape(df'[p]))
    /\ gpc' = [gpc EXCEPT ![p] = "makedirs"]
    /\ UNCHANGED <<file_index, file_name, runs, calls, fsVars>>

\* lines 46-49: os.makedirs(directory, exist_ok=True); file_index = 1
GdMakedirs(p) ==
    /\ gpc[p] = "makedirs"
    /\ dirs' = dirs \cup {directory}
    /\ file_index' = [file_index EXCEPT ![p] = 1]
    /\ gpc' = [gpc EXCEPT ![p] = "search"]
    /\ UNCHANGED <<df, file_name, runs, calls, files, files0, written, shapes>>

\* lines 50-51: the candidate exists; try the next index
GdExistsSkip(p) ==
    /\ gpc[p] = "search"
    /\ Exists(FileName(file_index[p]))
    /\ file_index' = [file_index EXCEPT ![p] = @ + 2]
    /\ UNCHANGED <<df, file_name, gpc, runs, calls, fsVars, shapes>>
GdExistsStay(p) ==
    /\ gpc[p] = "search"
    /\ Exists(FileName(file_index[p]))
    /\ UNCHANGED vars
GdExists(p) ==
    /\ gpc[p] = "search"
    /\ Exists(FileName(file_index[p]))
    /\ file_index' = [file_index EXCEPT ![p] = @ + 1]
    /\ UNCHANGED <<df, file_name, gpc, runs, calls, fsVars, shapes>>

\* lines 50, 52: the candidate does not exist; it is the name
GdName(p) ==
    /\ gpc[p] = "search"
    /\ ~Exists(FileName(file_index[p]))
    /\ file_name' = [file_name EXCEPT ![p] = FileName(file_index[p])]
    /\ gpc' = [gpc EXCEPT ![p] = "to_csv"]
    /\ UNCHANGED <<df, file_index, runs, calls, fsVars, shapes>>

\* the file system after open(path, "w") and the write: the file is
\* created, or truncated and replaced
WriteFileKeep(path, content) ==
    IF path \in DOMAIN files THEN files
    ELSE [n \in DOMAIN files \cup {path} |-> IF n = path THEN content ELSE files[n]]
WriteFile(path, content) ==
    [n \in DOMAIN files \cup {path} |-> IF n = path THEN content ELSE files[n]]

\* lines 55-56: df.to_csv(file_name, index=False), and the call returns;
\* written is the log of the writes: who wrote which index
GdToCsv(p) ==
    /\ gpc[p] = "to_csv"
    /\ files' = WriteFile(file_name[p], ToCsv(df[p]))
    /\ written' = Append(written, [proc |-> p, index |-> file_index[p]])
    /\ gpc' = [gpc EXCEPT ![p] = "done"]
    /\ UNCHANGED <<df, file_index, file_name, runs, calls, dirs, files0, shapes>>

---------------------------------------------------------------------------
\* Specifications

\* app.py's generator called with any arguments of the input sets
InitApp ==
    AppCalled /\ GdIdle /\ FsIdle /\ runs = [p \in Procs |-> 0] /\ shapes = <<>>

\* generate_data.py run alone, MaxCalls times in a row
InitExport ==
    /\ AppIdle /\ GdIdle /\ FsInit /\ shapes = <<>>
    /\ runs = [p \in Procs |-> IF p = 1 THEN MaxCalls ELSE 0]

\* two runs of generate_data.py at once on the same directory and prefix
InitRace ==
    AppIdle /\ GdIdle /\ FsInit /\ runs = [p \in Procs |-> 1] /\ shapes = <<>>

NextExport ==
    \/ \E p \in Procs : GdCall(p) /\ UNCHANGED appVars
    \/ \E p \in Procs : GdGenerate(p) /\ UNCHANGED appVars
    \/ \E p \in Procs : GdMakedirs(p) /\ UNCHANGED appVars
    \/ \E p \in Procs : GdExists(p) /\ UNCHANGED appVars
    \/ \E p \in Procs : GdName(p) /\ UNCHANGED appVars
    \/ \E p \in Procs : GdToCsv(p) /\ UNCHANGED appVars

\* either program, run alone
Init == InitApp \/ InitExport
Next ==
    \/ AppArange /\ UNCHANGED <<gdVars, fsVars>>
    \/ AppFirst /\ UNCHANGED <<gdVars, fsVars>>
    \/ AppStep /\ UNCHANGED <<gdVars, fsVars>>
    \/ AppReturn /\ UNCHANGED <<gdVars, fsVars>>
    \/ AppCallAgain /\ UNCHANGED <<gdVars, fsVars>>
    \/ NextExport
Spec == Init /\ [][Next]_vars

SpecExport == InitExport /\ [][NextExport]_vars
\* the program runs on: a search that can take a step takes it
SearchStep == (\E p \in Procs : GdExists(p) \/ GdName(p)) /\ UNCHANGED appVars
SpecExportFair == SpecExport /\ WF_vars(SearchStep)
SpecRace == InitRace /\ [][NextExport]_vars

---------------------------------------------------------------------------
\* Properties

\* the four channel arrays of app.py, in column order
AppSeries(c) == CASE c = 1 -> rop [] c = 2 -> rpm [] c = 3 -> fr [] c = 4 -> wob

\* how many positions of app.py's arrays hold a generated value
Filled == IF pc \in {"loop", "returned"} THEN i ELSE 0

InRange(c, v) == LOW[c] <= v /\ v <= HIGH[c]

Abs(x) == IF x < 0 THEN -x ELSE x

\* C1: every generated value of every channel lies within the channel's
\* bounds, in app.py (each filled position and the returned table) and in
\* generate_data.py (the table of every call).
C1_ValuesWithinBounds ==
    /\ \A c \in 1..4 : \A k \in 1..Filled : InRange(c, AppSeries(c)[k])
    /\ pc = "returned" =>
         \A c \in 1..4 : \A k \in 1..Len(data[c + 1][2]) : InRange(c, data[c + 1][2][k])
    /\ \A p \in Procs : \A c \in 2..Len(df[p]) :
         \A k \in 1..Len(df[p][c][2]) : InRange(c - 1, df[p][c][2][k])

\* C1 witness: app.py returned a table in which the walk of the RPM was cut
\* at the lower bound and the walk of the ROP at the upper bound.
C1_Witness ==
    /\ pc = "returned"
    /\ \E k \in 2..Len(rpm) :
         rpm[k] = LOW[2] /\ rpm[k - 1] > LOW[2] /\ rpm[k - 1] - max_step[2] < LOW[2]
    /\ \E k \in 2..Len(rop) :
         rop[k] = HIGH[1] /\ rop[k - 1] < HIGH[1] /\ rop[k - 1] + max_step[1] > HIGH[1]

\* C2: every stored value differs from its predecessor by at most the
\* channel's maximum step, clamped steps included, in both generators.
C2_StepWithinMaxDelta ==
    /\ \A c \in 1..4 : \A k \in 2..Filled :
         Abs(AppSeries(c)[k] - AppSeries(c)[k - 1]) <= max_step[c]
    /\ \A p \in Procs : \A c \in 2..Len(df[p]) : \A k \in 2..Len(df[p][c][2]) :
         Abs(df[p][c][2][k] - df[p][c][2][k - 1]) <= GD_MAX_STEP[c - 1]

\* C2 witness: a table of generate_data.py in which a step of the weight on
\* bit was cut short by the clamp (it moved, by less than the maximum step,
\* onto the upper bound) and an unclamped step of the full size occurred.
C2_Witness ==
    \E p \in Procs :
        /\ Len(df[p]) = 5
        /\ \E k \in 2..Len(df[p][5][2]) :
             /\ df[p][5][2][k] = HIGH[4]
             /\ df[p][5][2][k] - df[p][5][2][k - 1] > 0
             /\ df[p][5][2][k] - df[p][5][2][k - 1] < GD_MAX_STEP[4]
        /\ \E k \in 2..Len(df[p][5][2]) :
             df[p][5][2][k] - df[p][5][2][k - 1] = GD_MAX_STEP[4]

\* C3: for step > 0 and end_depth >= start_depth the depth axis of app.py
\* is start_depth + k*step while that is <= end_depth: constant difference
\* step, last value at most end_depth, floor((end-start)/step) + 1 points.
C3_DepthAxisStopsAtEnd ==
    (pc \in {"first", "loop", "returned"} /\ step > 0 /\ end_depth >= start_depth) =>
        /\ \A k \in 1..Len(depths) : depths[k] = start_depth + (k - 1) * step
        /\ Len(depths) = ((end_depth - start_depth) \div step) + 1
        /\ depths[Len(depths)] <= end_depth

\* C4: run alone, the export chooses {prefix}_{k}.csv for the smallest
\* k >= 1 whose name does not exist; the name it chooses does not exist.
C4_SmallestFreeIndex ==
    \A p \in Procs : gpc[p] = "to_csv" =>
        /\ file_index[p] >= 1
        /\ file_name[p] = FileName(file_index[p])
        /\ file_name[p] \notin DOMAIN files
        /\ \A j \in 1..(file_index[p] - 1) : FileName(j) \in DOMAIN files
        /\ DOMAIN files = {"data/test_data_1.csv", "data/test_data_2.csv"}
              => file_name[p] = "data/test_data_3.csv"
        /\ DOMAIN files = {"data/test_data_1.csv", "data/test_data_3.csv"}
              => file_name[p] = "data/test_data_2.csv"

\* C4 witness: with only the indices 1 and 3 present the export is about to
\* write test_data_2.csv.
C4_Witness ==
    /\ DOMAIN files = {"data/test_data_1.csv", "data/test_data_3.csv"}
    /\ gpc[1] = "to_csv"
    /\ file_index[1] = 2
    /\ file_name[1] = "data/test_data_2.csv"

\* C5: run alone, no step of an export removes or changes a file; a write
\* adds exactly one file, and no other step changes the directory's files.
C5_ExportOnlyAddsOneFile ==
    [][ /\ \A n \in DOMAIN files : n \in DOMAIN files' /\ files'[n] = files[n]
        /\ Len(written') > Len(written) =>
              Cardinality(DOMAIN files') = Cardinality(DOMAIN files) + 1
        /\ Len(written') = Len(written) => files' = files ]_vars

\* C5 witness: the directory held test_data_1.csv and test_data_2.csv; one
\* export has completed, test_data_3.csv is new and the two are as before.
C5_Witness ==
    /\ DOMAIN files0 = {"data/test_data_1.csv", "data/test_data_2.csv"}
    /\ gpc[1] = "done" /\ Len(written) = 1
    /\ DOMAIN files = DOMAIN files0 \cup {"data/test_data_3.csv"}
    /\ \A n \in DOMAIN files0 : files[n] = files0[n]
    /\ files["data/test_data_3.csv"] = ToCsv(df[1])

\* C6: the indices chosen by sequential exports are strictly increasing.
C6_IndicesIncrease ==
    \A a \in 1..Len(written) : \A b \in 1..Len(written) :
        a < b => written[a].index < written[b].index

\* C6 witness: from a directory with a gap (indices 1 and 3) two exports in
\* a row chose 2 and then 4.
C6_Witness ==
    /\ DOMAIN files0 = {"data/test_data_1.csv", "data/test_data_3.csv"}
    /\ Len(written) = 2
    /\ written[1].index = 2 /\ written[2].index = 4

\* C7: a call with end_depth < start_depth or step <= 0 is rejected before
\* generation starts: no random value is drawn and no table is returned.
C7_InvalidRangeRejected ==
    (end_depth < start_depth \/ step <= 0) =>
        (ndraws = 0 /\ pc # "returned" /\ Len(data) = 0)

AllDone == \A p \in Procs : gpc[p] = "done" /\ calls[p] = runs[p]

\* C8: when two concurrent exports have completed having chosen the same
\* index, the directory has one new file only, and it holds the table of
\* the export that wrote last; with different indices it has two.
C8_RaceOverwrites ==
    AllDone =>
        /\ Len(written) = 2
        /\ written[1].index = written[2].index =>
             /\ Cardinality(DOMAIN files) = Cardinality(DOMAIN files0) + 1
             /\ files[FileName(written[2].index)] = ToCsv(df[written[2].proc])
        /\ written[1].index # written[2].index =>
             Cardinality(DOMAIN files) = Cardinality(DOMAIN files0) + 2

\* C8 witness: both exports completed, both chose the same index, their
\* tables differ, and the table written first is no longer in the file.
C8_Witness ==
    /\ AllDone
    /\ written[1].proc # written[2].proc
    /\ written[1].index = written[2].index
    /\ df[1] # df[2]
    /\ Cardinality(DOMAIN files) = Cardinality(DOMAIN files0) + 1
    /\ files[FileName(written[1].index)] # ToCsv(df[written[1].proc])

\* C9: every returned table has the five columns in their order, each as
\* long as the depth axis, and all tables built from the same arguments
\* have the same shape whatever the draws.
C9_ShapeFixed ==
    /\ pc = "returned" =>
         /\ [c \in 1..Len(data) |-> data[c][1]] = COLUMNS
         /\ data[1][2] = depths
         /\ \A c \in 1..Len(data) : Len(data[c][2]) = Len(depths)
    /\ \A p \in Procs : Len(df[p]) > 0 =>
         /\ [c \in 1..Len(df[p]) |-> df[p][c][1]] = COLUMNS
         /\ df[p][1][2] = Arange(GD_START, GD_STOP, GD_STEP)
         /\ \A c \in 1..Len(df[p]) : Len(df[p][c][2]) = Len(df[p][1][2])
    /\ \A a \in 1..Len(shapes) : \A b \in 1..Len(shapes) : shapes[a] = shapes[b]

\* C9 witness: app.py returned a second table for the same arguments, three
\* rows long, whose values vary along the walk.
C9_Witness ==
    /\ pc = "returned" /\ Len(shapes) = 2
    /\ Len(depths) = 3
    /\ rop[1] # rop[2] /\ wob[2] # wob[3]

NumberedFiles == DOMAIN files \ {OtherFile}

\* C10: the search of an export run alone never tests more than n + 1
\* candidates, n being the number of numbered files of the directory, so
\* the index it chooses is at most n + 1; and the search terminates.
C10_SearchTerminates ==
    /\ [](\A p \in Procs : gpc[p] \in {"search", "to_csv"} =>
             file_index[p] <= Cardinality(NumberedFiles) + 1)
    /\ \A p \in Procs : (gpc[p] = "search") ~> (gpc[p] = "to_csv")

\* C10 witness: every index up to MaxExisting existed, and the search ended
\* after n + 1 tests on the index n + 1.
C10_Witness ==
    /\ gpc[1] = "to_csv"
    /\ Cardinality(NumberedFiles) >= MaxExisting
    /\ file_index[1] = Cardinality(NumberedFiles) + 1

=============================================================================
